---------------------------- MODULE Spec2Model ----------------------------
(***************************************************************************)
(* A model of ComfyWorker (src/worker.py): the poll loop `run`, the task   *)
(* routine `process_task`, and the execution monitor `execute_workflow`    *)
(* with its event loop, progress reports and result resolution.            *)
(***************************************************************************)
EXTENDS Integers, Sequences, FiniteSets, TLC

(***************************************************************************)
(* Bounds of the model.                                                    *)
(***************************************************************************)
\* Events one execution consumes before the stream must end the loop
\* (a completion signal or an error).
MaxEvents == 3
\* Image filenames a history record lists at most.
MaxImages == 2

(***************************************************************************)
(* IEEE-754 binary64 arithmetic, as far as line 179 needs it:              *)
(*     int(data['value'] / data['max'] * 100)                              *)
(* A double is a record [m |-> bits, e |-> exponent]: the bits are the     *)
(* significand, most significant first, and its value is bits * 2^e.       *)
(***************************************************************************)
MantissaBits == 53

Pow2[n \in Nat] == IF n = 0 THEN 1 ELSE 2 * Pow2[n - 1]

\* The integer a bit string denotes (at most 31 bits).
BitsToInt(bits) ==
    LET Value[i \in 0..Len(bits)] ==
            IF i = 0 THEN 0 ELSE 2 * Value[i - 1] + bits[i]
    IN  Value[Len(bits)]

\* n as a bit string of the given width.
IntToBits(n, width) == [i \in 1..width |-> (n \div Pow2[width - i]) % 2]

StripZeros(bits) ==
    IF \A i \in 1..Len(bits) : bits[i] = 0 THEN <<>>
    ELSE LET first == CHOOSE i \in 1..Len(bits) :
                          bits[i] = 1 /\ \A j \in 1..(i - 1) : bits[j] = 0
         IN  SubSeq(bits, first, Len(bits))

\* bits + 1, one bit longer when every bit is 1.
IncBits(bits) ==
    IF \A i \in 1..Len(bits) : bits[i] = 1
    THEN <<1>> \o [i \in 1..Len(bits) |-> 0]
    ELSE LET low == CHOOSE i \in 1..Len(bits) :
                        bits[i] = 0 /\ \A j \in (i + 1)..Len(bits) : bits[j] = 1
         IN  [i \in 1..Len(bits) |->
                 IF i < low THEN bits[i] ELSE IF i = low THEN 1 ELSE 0]

\* Round an exact significand to MantissaBits bits, to nearest, ties to even.
RoundNearestEven(bits, e) ==
    IF Len(bits) <= MantissaBits THEN [m |-> bits, e |-> e]
    ELSE LET extra  == Len(bits) - MantissaBits
             keep   == SubSeq(bits, 1, MantissaBits)
             guard  == bits[MantissaBits + 1]
             sticky == \E i \in (MantissaBits + 2)..Len(bits) : bits[i] = 1
             up     == guard = 1 /\ (sticky \/ keep[MantissaBits] = 1)
             r      == IF up THEN IncBits(keep) ELSE keep
         IN  IF Len(r) > MantissaBits
             THEN [m |-> SubSeq(r, 1, MantissaBits), e |-> e + extra + 1]
             ELSE [m |-> r, e |-> e + extra]

\* 2^n modulo den, by repeated squaring (den * den must fit an integer).
Pow2Mod(n, den) ==
    LET P[k \in 0..n] ==
            IF k = 0 THEN 1 % den
            ELSE IF k % 2 = 0
                 THEN LET h == P[k \div 2] IN (h * h) % den
                 ELSE (2 * P[k - 1]) % den
    IN  P[n]

\* The first `count` quotient bits of rem / den (rem < den) after the binary
\* point, then a sticky bit: whether a remainder is left after them.
\* Rem(i) is rem * 2^i modulo den, the remainder of the long division after
\* i bits.
DivBits(rem, den, count) ==
    LET Rem(i) == (rem * Pow2Mod(i, den)) % den
    IN  [i \in 1..(count + 1) |->
            IF i <= count
            THEN (IF 2 * Rem(i - 1) >= den THEN 1 ELSE 0)
            ELSE (IF Rem(count) = 0 THEN 0 ELSE 1)]

\* The least j with num * 2^j >= den.
ShiftUp(num, den) ==
    LET Shift[n \in Nat] == IF n >= den THEN 0 ELSE 1 + Shift[2 * n]
    IN  Shift[num]

\* The greatest j with den * 2^j <= num (den <= num).
ShiftDown(num, den) ==
    LET Shift[d \in Nat] == IF 2 * d > num THEN 0 ELSE 1 + Shift[2 * d]
    IN  Shift[den]

\* value / max in binary64, for integers value > 0, max > 0: Python's true
\* division of two ints is correctly rounded.
FloatDiv(value, max) ==
    LET up   == ShiftUp(value, max)
        down == IF up = 0 THEN ShiftDown(value, max) ELSE 0
        num  == value * Pow2[up]
        den  == max * Pow2[down]
        \* num / den is in [1, 2): the leading bit is 1; then 52 bits, a guard
        \* bit, and a sticky bit for the remainder.
        tail == DivBits(num - den, den, MantissaBits)
    IN  RoundNearestEven(<<1>> \o tail, (down - up) - (MantissaBits + 1))

\* bits * c for a small integer c (c < 2^LimbBits), as bits: the bit string is
\* cut into limbs of LimbBits bits, multiplied limb by limb with a carry.
LimbBits == 2 * 7

MulBits(bits, c) ==
    LET n      == Len(bits)
        nl     == (n + LimbBits - 1) \div LimbBits
        padded == [i \in 1..(nl * LimbBits - n) |-> 0] \o bits
        \* limbs[1] is the least significant limb
        limbs  == [j \in 1..nl |->
                     BitsToInt(SubSeq(padded, (nl - j) * LimbBits + 1,
                                      (nl - j + 1) * LimbBits))]
        \* Carry[j] is the carry out of limb j
        Carry[j \in 0..nl] ==
            IF j = 0 THEN 0 ELSE (limbs[j] * c + Carry[j - 1]) \div Pow2[LimbBits]
        out    == [j \in 1..nl |-> (limbs[j] * c + Carry[j - 1]) % Pow2[LimbBits]]
        outBits == [j \in 1..nl |-> IntToBits(out[j], LimbBits)]
        body   == [i \in 1..(nl * LimbBits) |->
                     outBits[nl - ((i - 1) \div LimbBits)][((i - 1) % LimbBits) + 1]]
    IN  IntToBits(Carry[nl], LimbBits) \o body

\* x * c in binary64 (c is converted exactly).
FloatMul(x, c) == RoundNearestEven(StripZeros(MulBits(x.m, c)), x.e)

\* int(x) for x >= 0: truncation.
FloatToInt(x) ==
    IF x.e >= 0 THEN BitsToInt(x.m) * Pow2[x.e]
    ELSE IF Len(x.m) + x.e <= 0 THEN 0
         ELSE BitsToInt(SubSeq(x.m, 1, Len(x.m) + x.e))

\* Line 179, for value >= 0 and max > 0.
progress_percentage(value, max) ==
    IF value = 0 THEN 0 ELSE FloatToInt(FloatMul(FloatDiv(value, max), 100))

(***************************************************************************)
(* The inputs: tasks, stream frames, handles.                              *)
(***************************************************************************)
None   == "None"      \* Python's None
Absent == "Absent"    \* a key the JSON object does not have

TaskIds == {"t1", "t2"}
\* task["input"]["prompt"]: a prompt, the empty string, or no prompt at all
Prompts == {"a red fox", "", Absent}
Tasks   == [id : TaskIds, prompt : Prompts]
NoTask  == [id |-> None, prompt |-> None]

\* Submission handles the backend hands out; events may carry any of them.
Handles == {"p1", "p2"}

\* (value, max) of the progress frames the stream may deliver.
TickValues == {0, 1, 2, 29}
TickMaxes  == {0, 2, 50}

Frame(type, node, pid, value, max, q) ==
    [type |-> type, node |-> node, prompt_id |-> pid,
     value |-> value, max |-> max, queue_remaining |-> q]

ExecutingFrames ==
    {Frame("executing", n, p, 0, 0, 0) :
        n \in {None, "6", Absent}, p \in Handles \cup {Absent}}
ProgressFrames ==
    {Frame("progress", Absent, Absent, v, m, 0) : v \in TickValues, m \in TickMaxes}
StatusFrames ==
    {Frame("status", Absent, Absent, 0, 0, q) : q \in {0, 1}}
\* "executed": a text frame no branch of the loop handles; "binary": a frame
\* that is not a str; "malformed": a text frame json.loads or message['type']
\* rejects; "closed": recv itself raises.
OtherFrames ==
    {Frame(t, Absent, Absent, 0, 0, 0) : t \in {"executed", "binary", "malformed", "closed"}}
Frames  == ExecutingFrames \cup ProgressFrames \cup StatusFrames \cup OtherFrames
NoFrame == Frame(None, Absent, Absent, 0, 0, 0)

\* The percentage line 179 computes for each progress frame the stream may
\* deliver, as triples (value, max, percentage).
Percentages ==
    {<<v, m, progress_percentage(v, m)>> : v \in TickValues, m \in TickMaxes \ {0}}
Percentage(e) ==
    (CHOOSE t \in Percentages : t[1] = e.value /\ t[2] = e.max)[3]

NoErr == "no error"

VARIABLES
    pc,             \* the worker's position in run / process_task / execute_workflow
    current_task,   \* self.current_task
    task,           \* the task of the last claim (run's local `task`)
    ws,             \* the streaming channel: "none", "open", "closed"
    prompt_id,      \* execute_workflow's prompt_id
    task_started,   \* execute_workflow's task_started
    current_progress_percentage,
    recvs,          \* frames this execution has taken from ws.recv()
    last,           \* the last frame taken
    monitor,        \* "Idle", "Running", "Completed", "Failed"
    history_images, \* image entries of the history record read
    output_images,  \* Len(output_images)
    err,            \* the exception being handled
    reports,        \* the update_task calls made for `task`, in order
    backend,        \* the kinds of calls made to the generation backend for `task`
    job             \* the backend's state of the submitted job: "none", "queued",
                    \* "finished"

vars == <<pc, current_task, task, ws, prompt_id, task_started,
          current_progress_percentage, recvs, last, monitor, history_images,
          output_images, err, reports, backend, job>>

execVars == <<prompt_id, task_started, current_progress_percentage, recvs,
              last, history_images, output_images>>

Report(id, status, progress, code, message) ==
    [task |-> id, status |-> status, progress |-> progress,
     code |-> code, message |-> message, image_urls |-> <<>>]

\* A variant that sends the success report without the uploaded URL.
SuccessOutput_NoUrl(url) == <<>>

\* lines 264-266: output={"image_urls": [image_url]}
SuccessOutput(url) == <<url>>

\* line 257: the URL upload_file returns for the first image of the task
ImageUrl(id) == <<"url", id>>

ERROR_CODE == 10001

Init ==
    /\ pc = "poll"
    /\ current_task = NoTask
    /\ task = NoTask
    /\ ws = "none"
    /\ prompt_id = None
    /\ task_started = FALSE
    /\ current_progress_percentage = 0
    /\ recvs = 0
    /\ last = NoFrame
    /\ monitor = "Idle"
    /\ history_images = 0
    /\ output_images = 0
    /\ err = NoErr
    /\ reports = <<>>
    /\ backend = {}
    /\ job = "none"

(***************************************************************************)
(* The try blocks.  process_task's try (lines 228-272) encloses everything *)
(* from the assignment of current_task to the cleanup; execute_workflow's  *)
(* try/finally (lines 154-222) starts after the channel is created.  The   *)
(* handler of process_task and the claim run inside run's try (346-352).   *)
(***************************************************************************)
ProcessTaskTry ==
    {"pt_start", "pt_prepare", "ew_connect", "ew_queue", "ew_recv", "ew_history",
     "ew_images", "pt_result", "pt_upload", "pt_success", "pt_cleanup"}
ExecuteWorkflowTry == {"ew_queue", "ew_recv", "ew_history", "ew_images"}
RunPcs == {"poll", "claim", "sleep", "run_except"}

\* A variant in which the channel is opened before process_task's try begins.
HandlerOf_ConnectOutsideTry(p) ==
    IF p \in ProcessTaskTry \ {"ew_connect"} THEN "pt_except" ELSE "run_except"

\* Where control goes when an exception is raised at position p.
HandlerOf(p) == IF p \in ProcessTaskTry THEN "pt_except" ELSE "run_except"

\* A variant that closes the channel at the return only, not in a finally.
Finally_OnlyOnReturn(p, w) == IF p = "ew_images" THEN "closed" ELSE w

\* The finally clause of execute_workflow (line 222).
Finally(p, w) == IF p \in ExecuteWorkflowTry THEN "closed" ELSE w

Raise(message) ==
    /\ pc' = HandlerOf(pc)
    /\ err' = message
    /\ ws' = Finally(pc, ws)

\* The locals of execute_workflow and process_task go out of scope.
LeaveProcessTask ==
    /\ prompt_id' = None
    /\ task_started' = FALSE
    /\ current_progress_percentage' = 0
    /\ recvs' = 0
    /\ last' = NoFrame
    /\ history_images' = 0
    /\ output_images' = 0
    /\ ws' = "none"
    /\ monitor' = "Idle"

(***************************************************************************)
(* run (lines 341-355).                                                    *)
(***************************************************************************)
\* A variant that claims whatever current_task holds.
MayClaim_Always(t) == TRUE

\* line 347: not self.current_task
MayClaim(t) == t = NoTask

\* line 347: if not self.current_task
Poll ==
    /\ pc = "poll"
    /\ pc' = IF MayClaim(current_task) THEN "claim" ELSE "sleep"
    /\ UNCHANGED <<current_task, task, ws, monitor, err, reports, backend, job, execVars>>

\* lines 348-351, claim_task (286-299): the request raises, the queue has no
\* work ({} has no id), or a task is claimed and process_task is entered.
ClaimTask ==
    /\ pc = "claim"
    /\ \/ /\ pc' = HandlerOf(pc)
          /\ err' = "claim failed"
          /\ UNCHANGED <<task, reports, backend, job>>
       \/ /\ task' = NoTask
          /\ pc' = "sleep"
          /\ reports' = <<>>
          /\ backend' = {}
          /\ job' = "none"
          /\ UNCHANGED err
       \/ \E t \in Tasks :
          /\ task' = t
          /\ pc' = "pt_start"
          /\ reports' = <<>>
          /\ backend' = {}
          /\ job' = "none"
          /\ UNCHANGED err
    /\ UNCHANGED <<current_task, ws, monitor, execVars>>

\* line 352: time.sleep(1)
Sleep ==
    /\ pc = "sleep"
    /\ pc' = "poll"
    /\ UNCHANGED <<current_task, task, ws, monitor, err, reports, backend, job, execVars>>

\* lines 353-355: the error is logged, time.sleep(5)
Backoff ==
    /\ pc = "run_except"
    /\ pc' = "poll"
    /\ err' = NoErr
    /\ UNCHANGED <<current_task, task, ws, monitor, reports, backend, job, execVars>>

(***************************************************************************)
(* process_task, up to execute_workflow (lines 224-245).                   *)
(***************************************************************************)
\* A variant that tests `prompt is None` instead of `not prompt`.
PromptMissing_OnlyAbsent(t) == t.prompt = Absent

\* line 236: not prompt
PromptMissing(t) == t.prompt \in {"", Absent}

\* lines 230-237
StartTask ==
    /\ pc = "pt_start"
    /\ current_task' = task
    /\ IF PromptMissing(task)
       THEN Raise("No prompt provided in task input")
       ELSE pc' = "pt_prepare" /\ UNCHANGED <<err, ws>>
    /\ UNCHANGED <<task, monitor, reports, backend, job, execVars>>

\* lines 243-244: load_workflow (330-333) and inject_prompt (335-339)
PrepareWorkflow ==
    /\ pc = "pt_prepare"
    /\ \/ Raise("workflow template unreadable")
       \/ Raise("KeyError: '6'")
       \/ pc' = "ew_connect" /\ UNCHANGED <<err, ws>>
    /\ UNCHANGED <<current_task, task, monitor, reports, backend, job, execVars>>

(***************************************************************************)
(* execute_workflow (lines 149-222).                                       *)
(***************************************************************************)
\* A variant that submits although the connection was refused.
OpenChannel_SubmitsAnyway ==
    /\ pc = "ew_connect"
    /\ backend' = backend \cup {"ws"}
    /\ pc' = "ew_queue"
    /\ \/ ws' = "open"
       \/ ws' = ws
    /\ UNCHANGED <<current_task, task, monitor, err, reports, job, execVars>>

\* line 153: websocket.create_connection, before the try
OpenChannel ==
    /\ pc = "ew_connect"
    /\ backend' = backend \cup {"ws"}
    /\ \/ Raise("connection refused")
       \/ pc' = "ew_queue" /\ ws' = "open" /\ UNCHANGED err
    /\ UNCHANGED <<current_task, task, monitor, reports, job, execVars>>

\* lines 156-161, queue_prompt (70-78)
QueuePrompt ==
    /\ pc = "ew_queue"
    /\ backend' = backend \cup {"prompt"}
    /\ \/ /\ Raise("Failed to queue prompt")
          /\ UNCHANGED <<prompt_id, monitor, job>>
       \/ /\ \E h \in Handles : prompt_id' = h
          /\ pc' = "ew_recv"
          /\ monitor' = "Running"
          /\ job' = "queued"
          /\ UNCHANGED <<err, ws>>
    /\ task_started' = FALSE
    /\ current_progress_percentage' = 0
    /\ UNCHANGED <<current_task, task, reports, recvs, last, history_images,
                   output_images>>

\* A variant with the comparison of the handles inverted.
CompletesByNode_OtherHandle(e, handle) == e.node = None /\ e.prompt_id # handle

\* line 171: data['node'] is None and data['prompt_id'] == prompt_id
CompletesByNode(e, handle) == e.node = None /\ e.prompt_id = handle

\* line 171: the subscripts raise KeyError for an absent key; `and` does not
\* evaluate data['prompt_id'] when the node is not None.
RaisesKeyError(e) == e.node = Absent \/ (e.node = None /\ e.prompt_id = Absent)

\* A variant without the started flag: the first drained queue completes.
CompletesByDrain_NoStartFlag(e, started) == e.queue_remaining = 0

\* line 192-193: the queue is drained and the start was seen before
CompletesByDrain(e, started) == e.queue_remaining = 0 /\ started

\* A variant that reports on any change of the percentage.
ReportsProgress_OnChange(percentage, current) == percentage # current

\* line 181
ReportsProgress(percentage, current) == percentage > current

\* What one pass of the loop body (lines 164-201) does with a frame, reports
\* left aside: "raise", "break" or "continue".
Outcome(e, started, handle) ==
    CASE e.type = "closed"    -> "raise"
      [] e.type = "malformed" -> "raise"
      [] e.type = "binary"    -> "continue"
      [] e.type = "executing" ->
            IF RaisesKeyError(e) THEN "raise"
            ELSE IF CompletesByNode(e, handle) THEN "break" ELSE "continue"
      [] e.type = "progress"  -> IF e.max = 0 THEN "raise" ELSE "continue"
      [] e.type = "status"    ->
            IF CompletesByDrain(e, started) THEN "break" ELSE "continue"
      [] OTHER                -> "continue"

ErrorOf(e) ==
    CASE e.type = "closed"    -> "Connection is already closed."
      [] e.type = "malformed" -> "Expecting value"
      [] e.type = "executing" -> "KeyError"
      [] e.type = "progress"  -> "division by zero"
      [] OTHER                -> "error"

\* lines 163-201: one ws.recv() and the loop body for the frame it returns.
HandleFrame(e) ==
    LET o == Outcome(e, task_started, prompt_id) IN
    /\ recvs' = recvs + 1
    /\ last' = e
    /\ \/ /\ o = "raise"
          /\ Raise(ErrorOf(e))
          /\ monitor' = "Failed"
          /\ UNCHANGED <<task_started, current_progress_percentage, reports>>
       \/ /\ o = "break"
          /\ pc' = "ew_history"
          /\ monitor' = "Completed"
          /\ UNCHANGED <<task_started, current_progress_percentage, reports, err, ws>>
       \/ /\ o = "continue"
          /\ e.type = "progress"
          /\ ReportsProgress(Percentage(e), current_progress_percentage)
          \* lines 182-187: update_task returns, or raises
          /\ reports' = Append(reports, Report(current_task.id, "processing",
                                               <<Percentage(e)>>, 0, ""))
          /\ \/ /\ current_progress_percentage' = Percentage(e)
                /\ UNCHANGED <<pc, err, ws, monitor>>
             \/ /\ Raise("update_task failed")
                /\ monitor' = "Failed"
                /\ UNCHANGED current_progress_percentage
          /\ UNCHANGED task_started
       \/ /\ o = "continue"
          /\ e.type = "progress"
          /\ ~ReportsProgress(Percentage(e), current_progress_percentage)
          /\ UNCHANGED <<pc, err, ws, monitor, task_started,
                         current_progress_percentage, reports>>
       \/ /\ o = "continue"
          /\ e.type = "status"
          \* line 197
          /\ task_started' = (task_started \/ e.queue_remaining = 0)
          /\ UNCHANGED <<pc, err, ws, monitor, current_progress_percentage, reports>>
       \/ /\ o = "continue"
          /\ e.type \notin {"progress", "status"}
          /\ UNCHANGED <<pc, err, ws, monitor, task_started,
                         current_progress_percentage, reports>>

\* While the worker waits for an answer of the backend, the backend may
\* finish a queued job.
JobAfter(state) == IF state = "queued" THEN {"queued", "finished"} ELSE {state}

\* The backend sends the 'executing' event with a null node and the handle of
\* a job when it has finished that job; the other frames come at any time,
\* whatever the job's state (the status events tell of the whole queue).
BackendEmits(e, handle, state) ==
    (e.type = "executing" /\ e.node = None /\ e.prompt_id = handle)
       => state = "finished"

\* The stream delivers any frame the backend emits; after MaxEvents frames it
\* delivers one that ends the loop.
Recv ==
    /\ pc = "ew_recv"
    /\ \E e \in Frames, state \in JobAfter(job) :
          /\ BackendEmits(e, prompt_id, state)
          /\ recvs < MaxEvents \/ Outcome(e, task_started, prompt_id) # "continue"
          /\ job' = state
          /\ HandleFrame(e)
    /\ UNCHANGED <<current_task, task, prompt_id, history_images, output_images,
                   backend>>

\* lines 204-209: GET /history answers with another status, the record of the
\* handle is not in the answer (the job is not finished), or it is and lists n
\* image entries.
GetHistory ==
    /\ pc = "ew_history"
    /\ backend' = backend \cup {"history"}
    /\ \E state \in JobAfter(job) :
          /\ job' = state
          /\ \/ Raise("Failed to get history") /\ UNCHANGED history_images
             \/ /\ state # "finished"
                /\ Raise("KeyError: prompt_id")
                /\ UNCHANGED history_images
             \/ /\ state = "finished"
                /\ \E n \in 0..MaxImages : history_images' = n
                /\ pc' = "ew_images"
                /\ UNCHANGED <<err, ws>>
    /\ UNCHANGED <<current_task, task, monitor, reports, prompt_id, task_started,
                   current_progress_percentage, recvs, last, output_images>>

\* lines 212-216, get_image (80-85): one GET /view per image entry
FetchImage ==
    /\ pc = "ew_images"
    /\ output_images < history_images
    /\ backend' = backend \cup {"view"}
    /\ \/ Raise("Failed to get image") /\ UNCHANGED output_images
       \/ /\ output_images' = output_images + 1
          /\ UNCHANGED <<pc, err, ws>>
    /\ UNCHANGED <<current_task, task, monitor, reports, job, prompt_id,
                   task_started, current_progress_percentage, recvs, last,
                   history_images>>

\* lines 218-222: return output_images, through the finally
ReturnImages ==
    /\ pc = "ew_images"
    /\ output_images = history_images
    /\ pc' = "pt_result"
    /\ ws' = Finally(pc, ws)
    /\ UNCHANGED <<current_task, task, monitor, err, reports, backend, job, execVars>>

(***************************************************************************)
(* process_task, after execute_workflow (lines 250-284).                   *)
(***************************************************************************)
\* line 250: if output_images; line 272 when there is none
CheckOutput ==
    /\ pc = "pt_result"
    /\ IF output_images > 0
       THEN /\ pc' = "pt_upload"
            /\ UNCHANGED <<current_task, ws, monitor, execVars>>
       ELSE /\ current_task' = NoTask
            /\ pc' = "sleep"
            /\ LeaveProcessTask
    /\ UNCHANGED <<task, err, reports, backend, job>>

\* lines 252-258: the image is saved, upload_file (315-328)
UploadImage ==
    /\ pc = "pt_upload"
    /\ \/ Raise("cannot write image")
       \/ Raise("Failed to upload file")
       \/ pc' = "pt_success" /\ UNCHANGED <<err, ws>>
    /\ UNCHANGED <<current_task, task, monitor, reports, backend, job, execVars>>

\* lines 261-267: update_task(status="success") returns, or raises
ReportSuccess ==
    /\ pc = "pt_success"
    /\ reports' = Append(reports,
                          [Report(task.id, "success", <<>>, 0, "")
                             EXCEPT !.image_urls = SuccessOutput(ImageUrl(task.id))])
    /\ \/ Raise("update_task failed")
       \/ pc' = "pt_cleanup" /\ UNCHANGED <<err, ws>>
    /\ UNCHANGED <<current_task, task, monitor, backend, job, execVars>>

\* lines 270-272: os.remove, then current_task = None
Cleanup ==
    /\ pc = "pt_cleanup"
    /\ \/ /\ Raise("cannot remove file")
          /\ UNCHANGED <<current_task, monitor, execVars>>
       \/ /\ current_task' = NoTask
          /\ pc' = "sleep"
          /\ LeaveProcessTask
          /\ UNCHANGED err
    /\ UNCHANGED <<task, reports, backend, job>>

\* A variant whose handler only logs the error and clears current_task.
HandleFailure_LogsOnly ==
    /\ pc = "pt_except"
    /\ current_task' = NoTask
    /\ pc' = "sleep"
    /\ err' = NoErr
    /\ LeaveProcessTask
    /\ UNCHANGED <<task, reports, backend, job>>

\* lines 274-284: the handler reports the failure; update_task returns and
\* current_task is cleared, or it raises and the exception leaves process_task.
HandleFailure ==
    /\ pc = "pt_except"
    /\ reports' = Append(reports, Report(task.id, "failed", <<>>, ERROR_CODE, err))
    /\ \/ /\ current_task' = NoTask
          /\ pc' = "sleep"
          /\ err' = NoErr
       \/ /\ pc' = HandlerOf(pc)
          /\ err' = "update_task failed"
          /\ UNCHANGED current_task
    /\ LeaveProcessTask
    /\ UNCHANGED <<task, backend, job>>

Next ==
    \/ Poll
    \/ ClaimTask
    \/ Sleep
    \/ Backoff
    \/ StartTask
    \/ PrepareWorkflow
    \/ OpenChannel
    \/ QueuePrompt
    \/ Recv
    \/ GetHistory
    \/ FetchImage
    \/ ReturnImages
    \/ CheckOutput
    \/ UploadImage
    \/ ReportSuccess
    \/ Cleanup
    \/ HandleFailure

Spec == Init /\ [][Next]_vars

\* The single thread of run always takes its next step: sleeps return, requests
\* answer or raise, and the stream delivers a frame.
LiveSpec == Spec /\ WF_vars(Next)

(***************************************************************************)
(* The websocket callback on_message (lines 42-62) and                     *)
(* handle_workflow_completion (87-144).  Nothing registers the callback:   *)
(* execute_workflow uses create_connection and its own receive loop, so    *)
(* run never reaches these methods and they are no step of Next.           *)
(* CallbackSpec is the worker object whose callback is called directly,    *)
(* with a task current or none.                                            *)
(***************************************************************************)
\* An 'executed' message, with a null node, a node id or no node field.
ExecutedFrames ==
    {Frame("executed", n, Absent, 0, 0, 0) : n \in {None, "6", Absent}}

\* The text messages the callback may be given.
CallbackFrames ==
    {e \in Frames \cup ExecutedFrames : e.type \notin {"closed", "binary"}}

\* lines 52-56: an 'executed' message whose node is None
CallsCompletion(e) == e.type = "executed" /\ e.node = None

\* lines 131-143: the handler of handle_workflow_completion, after the
\* reports `sent`: the 'failed' report is sent; update_task returns and
\* current_task is cleared (142), or it raises, and the exception is logged
\* by on_message (60-62) with current_task still set.
CompletionFails(sent, message) ==
    /\ reports' = Append(sent, Report(current_task.id, "failed", <<>>,
                                      ERROR_CODE, message))
    /\ \/ current_task' = NoTask
       \/ UNCHANGED current_task

\* lines 87-144, as one call: nothing without a current task; else GET
\* /history, the images of the latest record, GET /view for the first image
\* only, the upload, the 'success' report, the cleanup, current_task = None;
\* any exception goes to the handler.
handle_workflow_completion ==
    LET success == [Report(current_task.id, "success", <<>>, 0, "")
                      EXCEPT !.image_urls = SuccessOutput(ImageUrl(current_task.id))]
    IN
    IF current_task = NoTask
    THEN UNCHANGED <<current_task, reports, backend>>
    ELSE \/ /\ backend' = backend \cup {"history"}
            /\ \/ CompletionFails(reports, "Failed to get history")
               \/ CompletionFails(reports, "list index out of range")
               \/ current_task' = NoTask /\ UNCHANGED reports
         \/ /\ backend' = backend \cup {"history", "view"}
            /\ \/ CompletionFails(reports, "Failed to get image")
               \/ CompletionFails(reports, "cannot write image")
               \/ CompletionFails(reports, "Failed to upload file")
               \/ CompletionFails(Append(reports, success), "update_task failed")
               \/ CompletionFails(Append(reports, success), "cannot remove file")
               \/ reports' = Append(reports, success) /\ current_task' = NoTask

\* lines 42-62: the message is parsed and logged; an 'executed' message with
\* a null node calls handle_workflow_completion; every exception (a message
\* that is no JSON, a missing node field) is logged and swallowed.
on_message ==
    /\ pc = "callback"
    /\ recvs < MaxEvents
    /\ \E e \in CallbackFrames :
          /\ last' = e
          /\ recvs' = recvs + 1
          /\ IF CallsCompletion(e)
             THEN handle_workflow_completion
             ELSE UNCHANGED <<current_task, reports, backend>>
    /\ UNCHANGED <<pc, task, ws, prompt_id, task_started,
                   current_progress_percentage, monitor, history_images,
                   output_images, err, job>>

\* The object after construction, with current_task none or set to a task.
CallbackInit ==
    /\ pc = "callback"
    /\ current_task \in Tasks \cup {NoTask}
    /\ task = current_task
    /\ ws = "none"
    /\ prompt_id = None
    /\ task_started = FALSE
    /\ current_progress_percentage = 0
    /\ recvs = 0
    /\ last = NoFrame
    /\ monitor = "Idle"
    /\ history_images = 0
    /\ output_images = 0
    /\ err = NoErr
    /\ reports = <<>>
    /\ backend = {}
    /\ job = "none"

CallbackSpec == CallbackInit /\ [][on_message]_vars

(***************************************************************************)
(* Properties.                                                             *)
(***************************************************************************)
\* The progress reports among the reports of the task.
ProcessingReports(rs) == SelectSeq(rs, LAMBDA r : r.status = "processing")
TerminalReports(rs) == SelectSeq(rs, LAMBDA r : r.status \in {"success", "failed"})

\* This step takes a frame from the stream.
TakesFrame == pc = "ew_recv" /\ recvs' = recvs + 1

NullNodeForHandle(e, handle) ==
    e.type = "executing" /\ e.node = None /\ e.prompt_id = handle

\* C1: when the monitor reads an 'executing' frame with a null node and the
\* prompt_id of this submission, it goes from Running to Completed; once
\* Completed it stays Completed until the task routine is left, takes no
\* further frame and sends no further progress report.
C1_NullNodeCompletesOnce ==
    [][ /\ (TakesFrame /\ NullNodeForHandle(last', prompt_id))
            => (monitor = "Running" /\ monitor' = "Completed" /\ pc' = "ew_history")
        /\ (monitor = "Completed")
            => /\ monitor' \in {"Completed", "Idle"}
               /\ pc' # "ew_recv"
               /\ monitor' = "Completed" => (recvs' = recvs /\ last' = last)
               /\ ProcessingReports(reports') = ProcessingReports(reports)
      ]_vars

C1_Witness ==
    /\ pc = "pt_upload"
    /\ monitor = "Completed"
    /\ NullNodeForHandle(last, prompt_id)

\* C2: a 'status' frame with queue_remaining = 0 only sets the started flag
\* when the flag is not set, and completes the execution when it is; a 'status'
\* frame with queue_remaining > 0 changes nothing; and the loop ends normally
\* only on one of the two triggers, the first that arrives.
C2_QueueDrainFallback ==
    [][ TakesFrame =>
          /\ (last'.type = "status" /\ last'.queue_remaining = 0 /\ ~task_started)
                => /\ task_started'
                   /\ pc' = "ew_recv" /\ monitor' = "Running"
                   /\ reports' = reports
                   /\ current_progress_percentage' = current_progress_percentage
          /\ (last'.type = "status" /\ last'.queue_remaining = 0 /\ task_started)
                => (pc' = "ew_history" /\ monitor' = "Completed")
          /\ (last'.type = "status" /\ last'.queue_remaining > 0)
                => /\ task_started' = task_started
                   /\ pc' = "ew_recv" /\ monitor' = "Running"
                   /\ reports' = reports
                   /\ current_progress_percentage' = current_progress_percentage
          /\ (monitor' = "Completed")
                => \/ NullNodeForHandle(last', prompt_id)
                   \/ (last'.type = "status" /\ last'.queue_remaining = 0 /\ task_started)
      ]_vars

C2_Witness ==
    /\ pc = "ew_history"
    /\ monitor = "Completed"
    /\ recvs >= 2
    /\ task_started
    /\ last.type = "status" /\ last.queue_remaining = 0

\* C3: the percentages of the 'processing' reports sent for a task are
\* strictly increasing.
C3_ProgressStrictlyIncreasing ==
    LET ps == ProcessingReports(reports) IN
    \A i, j \in DOMAIN ps : i < j => ps[i].progress[1] < ps[j].progress[1]

\* Two reports were sent and then a tick with a lower percentage was taken.
C3_Witness ==
    /\ pc = "ew_recv"
    /\ Len(ProcessingReports(reports)) >= 2
    /\ last.type = "progress" /\ last.max > 0
    /\ Percentage(last) < current_progress_percentage

\* C4: for a progress frame (value, max) with max > 0, handled without an
\* error, a report is sent exactly when floor(value*100/max) exceeds the
\* high-water mark; it carries floor(value*100/max), which becomes the mark;
\* otherwise no report is sent and the mark is unchanged.
C4_ReportsExactFloor ==
    [][ (TakesFrame /\ last'.type = "progress" /\ last'.max > 0 /\ monitor' = "Running")
          => LET floor == (last'.value * 100) \div last'.max IN
             IF floor > current_progress_percentage
             THEN /\ reports' = Append(reports, Report(current_task.id, "processing",
                                                       <<floor>>, 0, ""))
                  /\ current_progress_percentage' = floor
             ELSE /\ reports' = reports
                  /\ current_progress_percentage' = current_progress_percentage
      ]_vars

\* C5: whenever process_task is not running (it has returned or raised),
\* current_task is none.
C5_CurrentTaskCleared == pc \in RunPcs => current_task = NoTask

\* C6: the worker makes a claim attempt again and again.
C6_ClaimsForever == []<>(pc = "claim")

\* C7: at every claim attempt, a terminal report has been sent for the task
\* claimed before.
C7_TerminalReportBeforeNextClaim ==
    (pc = "claim" /\ task # NoTask) => Len(TerminalReports(reports)) >= 1

\* C8: at most one terminal report is sent for a task, so never both a
\* 'success' and a 'failed' one.
C8_OneTerminalReport == Len(TerminalReports(reports)) <= 1

\* The steps of process_task that C9 lists: validation, template load and
\* prompt injection, channel open, submission, stream consumption, history
\* lookup, artifact fetch, upload.
ListedSteps ==
    {"pt_start", "pt_prepare", "ew_connect", "ew_queue", "ew_recv", "ew_history",
     "ew_images", "pt_upload"}

\* C9: an error raised at one of the listed steps is caught by the handler of
\* process_task, which sends a 'failed' report for the task with code 10001
\* and the error's message, and control then returns to the loop of run.
C9_ErrorsBecomeFailedReports ==
    [][ /\ (pc \in ListedSteps /\ err' # NoErr) => pc' = "pt_except"
        /\ (pc = "pt_except")
             => /\ reports' = Append(reports, Report(task.id, "failed", <<>>, 10001, err))
                /\ pc' \in RunPcs
        /\ (pc = "run_except") => pc' = "poll"
      ]_vars

\* A failure of the channel open was reported and the loop of run goes on.
C9_Witness ==
    /\ pc = "poll"
    /\ task # NoTask
    /\ reports = <<Report(task.id, "failed", <<>>, 10001, "connection refused")>>

\* C10: for a task whose prompt is empty or missing, no call to the backend
\* is made, and once process_task is left the reports of the task are exactly
\* one 'failed' report with the fixed code.
C10_EmptyPromptFailsBeforeBackend ==
    (task # NoTask /\ task.prompt \in {"", Absent})
      => /\ backend = {}
         /\ ws = "none"
         /\ pc \in RunPcs \cup {"pt_start", "pt_except"}
         /\ IF pc \in RunPcs
            THEN reports = <<Report(task.id, "failed", <<>>, 10001,
                                    "No prompt provided in task input")>>
            ELSE reports = <<>>

C10_Witness ==
    /\ pc = "sleep"
    /\ task # NoTask /\ task.prompt = ""
    /\ Len(reports) = 1 /\ reports[1].status = "failed"

\* C11: the channel is open exactly while execute_workflow is inside its try
\* block, and every step that leaves the block (the return, or an exception
\* of the submission, of recv, of the parsing of a frame, of the history
\* lookup or of an image fetch) leaves the channel closed.
C11_ChannelClosedOnEveryExit ==
    [][ /\ (ws = "open") <=> (pc \in ExecuteWorkflowTry)
        /\ (pc \in ExecuteWorkflowTry /\ pc' \notin ExecuteWorkflowTry)
             => ws' = "closed"
      ]_vars

\* The history answered without the record of the handle, and the channel
\* is closed when the handler of process_task runs.
C11_Witness ==
    /\ pc = "pt_except"
    /\ err = "KeyError: prompt_id"
    /\ monitor = "Completed"
    /\ ws = "closed"

\* C12: the job is submitted only while the channel is open, after the
\* connection was made; the channel is open as long as the monitor is
\* Running; and when the connection is refused no submission is made for
\* the task.
C12_ConnectThenSubmit ==
    [][ /\ ("prompt" \in backend' /\ "prompt" \notin backend)
             => (ws = "open" /\ "ws" \in backend)
        /\ (monitor' = "Running") => (ws' = "open")
        /\ (pc = "ew_connect" /\ ws' # "open")
             => (pc' = "pt_except" /\ err' = "connection refused")
        /\ (pc = "pt_except" /\ err = "connection refused")
             => ("prompt" \notin backend' /\ pc' \in RunPcs)
      ]_vars

\* The job was submitted and its first frame is awaited on the open channel.
C12_Witness ==
    /\ pc = "ew_recv"
    /\ recvs = 0
    /\ backend = {"ws", "prompt"}
    /\ ws = "open"

\* The positions inside process_task: a claimed task is being processed.
InFlight == pc \in ProcessTaskTry \cup {"pt_except"}

\* C13: a claim is attempted only when current_task is none, and then no
\* task is in flight; a task is taken up only by such a claim; and while a
\* task is in flight current_task is none or that one task.
C13_SingleTaskInFlight ==
    [][ /\ (pc = "claim") => (current_task = NoTask /\ ~InFlight)
        /\ (pc' = "claim") => (current_task = NoTask)
        /\ (task' # task \/ pc' = "pt_start") => (pc = "claim")
        /\ (current_task' # NoTask) => (current_task' = task')
      ]_vars

\* A second claim is attempted after a task was processed.
C13_Witness ==
    /\ pc = "claim"
    /\ task # NoTask
    /\ Len(reports) >= 1
    /\ current_task = NoTask

\* C14: an 'executing' frame that carries the handle of another submission
\* is ignored, whatever it carries as node (null, a node id, or no node
\* field): the loop goes on, the started flag and the high-water mark are
\* unchanged and no report is sent.
C14_OtherHandleIgnored ==
    [][ (TakesFrame /\ last'.type = "executing"
           /\ last'.prompt_id \in Handles \ {prompt_id})
          => /\ pc' = "ew_recv"
             /\ monitor' = "Running"
             /\ task_started' = task_started
             /\ current_progress_percentage' = current_progress_percentage
             /\ reports' = reports
      ]_vars

\* The same for the frames that have a node field (null or a node id).
C14_OtherHandleWithNodeIgnored ==
    [][ (TakesFrame /\ last'.type = "executing" /\ last'.node # Absent
           /\ last'.prompt_id \in Handles \ {prompt_id})
          => /\ pc' = "ew_recv"
             /\ monitor' = "Running"
             /\ task_started' = task_started
             /\ current_progress_percentage' = current_progress_percentage
             /\ reports' = reports
      ]_vars

SuccessReports(rs) == SelectSeq(rs, LAMBDA r : r.status = "success")

\* C15: among the reports of a task no 'processing' report follows a
\* terminal one; a 'success' report is sent only once the monitor is
\* Completed, the history record was read, an image was fetched and the
\* upload returned its URL, and it carries exactly that one URL; and when
\* process_task ends normally after it, the reports are the 'processing'
\* reports followed by the one 'success' report.
C15_ProgressThenOneSuccess ==
    [][ /\ \A i, j \in DOMAIN reports' :
              (i < j /\ reports'[i].status \in {"success", "failed"})
                 => reports'[j].status # "processing"
        /\ (Len(SuccessReports(reports')) > Len(SuccessReports(reports)))
             => /\ pc = "pt_success"
                /\ monitor = "Completed"
                /\ "history" \in backend
                /\ output_images >= 1
                /\ reports'[Len(reports')].image_urls = <<ImageUrl(task.id)>>
        /\ (pc = "pt_cleanup" /\ pc' = "sleep")
             => /\ Len(SuccessReports(reports)) = 1
                /\ reports = ProcessingReports(reports) \o SuccessReports(reports)
      ]_vars

\* process_task ended normally after a progress report and the success report.
C15_Witness ==
    /\ pc = "sleep"
    /\ Len(reports) >= 2
    /\ reports[1].status = "processing"
    /\ reports[Len(reports)].status = "success"
    /\ Len(reports[Len(reports)].image_urls) = 1

\* C16: an 'executing' frame for the handle of this submission that has no
\* node field completes the execution like a null node: the monitor goes to
\* Completed and the history lookup follows.
C16_AbsentNodeCompletes ==
    [][ (TakesFrame /\ last'.type = "executing" /\ last'.node = Absent
           /\ last'.prompt_id = prompt_id)
          => (monitor' = "Completed" /\ pc' = "ew_history")
      ]_vars

\* C17: for a history record with n >= 1 image entries exactly one image is
\* fetched, the first, so execute_workflow returns with one image and a
\* failed fetch is always the first fetch.
C17_OnlyFirstArtifactFetched ==
    /\ (pc = "pt_result" /\ history_images >= 1) => output_images = 1
    /\ (pc = "pt_except" /\ err = "Failed to get image") => output_images = 0

\* C18: the monitor is Completed only when the backend has finished the job
\* of the handle, whatever status events the shared queue sent before, and
\* the history lookup that follows does not find the record absent.
C18_CompletedOnlyWhenJobFinished ==
    /\ (monitor = "Completed") => (job = "finished")
    /\ ~(monitor = "Completed" /\ err = "KeyError: prompt_id")

\* C19: a progress frame with max = 0 fails the execution: the loop is left
\* for the handler of process_task, with no report for the frame, the
\* high-water mark as it was, the channel closed and no history lookup made;
\* the handler then sends a 'failed' report with the message of the division
\* error and control returns to run without a history lookup.
C19_ZeroMaxTickFails ==
    [][ /\ (TakesFrame /\ last'.type = "progress" /\ last'.max = 0)
             => /\ monitor' = "Failed"
                /\ pc' = "pt_except"
                /\ err' = "division by zero"
                /\ reports' = reports
                /\ current_progress_percentage' = current_progress_percentage
                /\ ws' = "closed"
                /\ "history" \notin backend'
        /\ (pc = "pt_except" /\ err = "division by zero")
             => /\ reports' = Append(reports, Report(task.id, "failed", <<>>, 10001,
                                                     "division by zero"))
                /\ pc' \in RunPcs
                /\ "history" \notin backend'
      ]_vars

\* A progress report was sent, then a tick with max = 0 failed the task.
C19_Witness ==
    /\ pc = "sleep"
    /\ Len(reports) = 2
    /\ reports[1].status = "processing"
    /\ reports[2].status = "failed" /\ reports[2].message = "division by zero"
    /\ backend = {"ws", "prompt"}

=============================================================================
